---- MODULE Spec2Model ----
(***************************************************************************)
(* State-machine model of the zktexasholdem Soroban contracts:             *)
(*   poker_game    (contracts/poker_game/src/lib.rs)                        *)
(*   noir_verifier (contracts/noir_verifier/src/lib.rs)                     *)
(*   game_hub      (contracts/game_hub/src/lib.rs)                          *)
(*   the MockNoirVerifier test double (contracts/poker_game/src/test.rs)    *)
(*                                                                         *)
(* A contract call that panics is rolled back by the host: storage keeps   *)
(* the value it had before the call.  Every handler is therefore an         *)
(* operator from the storage it reads to an outcome (ok or error, return    *)
(* value, storage to write), and an action that installs the outcome.       *)
(*                                                                         *)
(* BytesN<32> values are small naturals, 0 being the all-zero array.  A     *)
(* BytesN<128> proof blob is the pair <<first 32 bytes, last 96 bytes>>.    *)
(* i128 amounts are integers; the amounts used here stay far from 2^127.    *)
(***************************************************************************)
EXTENDS Integers, Sequences, FiniteSets, TLC

---------------------------------------------------------------------------
(* Bounds of the exploration *)

\* place_bet calls explored per hand (since the latest init_game)
MaxBets == 2
\* end_game calls explored per hand
MaxEnds == 1
\* attestations recorded
MaxAtt == 2
\* ledger timestamps explored: 0..MaxTime
MaxTime == 2

---------------------------------------------------------------------------
(* Values *)

\* const ZERO_COMMITMENT: [u8; 32] = [0u8; 32]
ZERO_COMMITMENT == 0

\* BytesN<32> digests used as commitments and fingerprints
Digests == {0, 1, 2}

\* BytesN<128> blobs: <<bytes 0..31, bytes 32..127>>, 0 meaning all zero
Proofs == {<<0, 0>>, <<0, 1>>, <<1, 0>>, <<2, 0>>}

\* u32 ranks offered by callers
Ranks == {0, 3, 4, 6, 9, 10}

\* BytesN<2> hole cards offered by callers
Cards == {<<51, 38>>, <<7, 8>>, <<52, 7>>, <<7, 52>>, <<7, 7>>}

\* Addresses: two accounts that play, one that does not, and two contracts
Accounts == {"A", "B", "X"}
NOIR == "noir"
MOCK == "mock"

\* i128 stacks offered to init_game
StartingChips == {101}

VARIABLES
    game_state,   \* poker_game instance storage GAME_STATE: <<>> or <<GameState>>
    verifier,     \* poker_game instance storage VERIFIER: <<>> or <<Address>>
    att_cnt,      \* noir_verifier storage ATT_CNT: <<>> or <<u32>>
    att,          \* noir_verifier storage (ATT, index) -> ZkVerifyAttestation
    att_h,        \* noir_verifier storage (ATT_H, proof_hash) -> attestation_id
    last,         \* the latest call: operation, arguments, outcome, storage before
    committed,    \* history: player indices whose submit_commitment succeeded
                  \* since the latest init_game or successful resolve_showdown
    nbets,        \* place_bet calls since the latest init_game
    nends,        \* end_game calls since the latest init_game
    recorded,     \* history: the attestations of the successful
                  \* record_zkverify_attestation calls, in order
    contributed,  \* history: sum of the amounts moved by place_bet since the latest
                  \* init_game or pot distribution
    settled,      \* history: successful resolve_showdown calls since the latest init_game
    games,        \* game_hub persistent storage GAMES: <<>> or <<Map<BytesN<32>, Game>>>
    ledger_time   \* env.ledger().timestamp()

vars == <<game_state, verifier, att_cnt, att, att_h, last, committed, nbets, nends,
         recorded, contributed, settled, games, ledger_time>>
hubVars == <<games, ledger_time>>
pokerVars == <<game_state, verifier>>
attVars == <<att_cnt, att, att_h>>

---------------------------------------------------------------------------
(* Outcomes *)

\* a call that ran to completion: return value, storage to write, event published
Ok(ret, state) ==
    [ok |-> TRUE, err |-> "", who |-> 0, inner |-> "", ret |-> ret, state |-> state,
     event |-> <<>>]
\* a call that panicked: kind of error, player index it is attributed to (0: none),
\* and the error of the callee when the panic came from a cross-contract call
Fail(err, who, inner) ==
    [ok |-> FALSE, err |-> err, who |-> who, inner |-> inner, ret |-> <<>>, state |-> <<>>,
     event |-> <<>>]

\* Option::unwrap_or
unwrap_or(opt, dflt) == IF opt = <<>> THEN dflt ELSE opt[1]

---------------------------------------------------------------------------
(* poker_game *)

Player(address, chips) ==
    [address |-> address, chips |-> chips, commitment |-> ZERO_COMMITMENT,
     current_bet |-> 0, has_folded |-> FALSE]

\* init_game: builds a fresh GameState and stores it; never fails
init_game(game_id, player1, player2, starting_chips) ==
    Ok(<<>>,
       [game_id |-> game_id,
        players |-> <<Player(player1, starting_chips), Player(player2, starting_chips)>>,
        pot |-> 0,
        community_cards |-> <<>>,
        current_round |-> "Preflop",
        dealer_button |-> 0,
        current_player |-> 0,
        is_active |-> TRUE,
        player1_proof_hash |-> ZERO_COMMITMENT,
        player2_proof_hash |-> ZERO_COMMITMENT,
        verifier_contract |-> unwrap_or(verifier, player1)])

\* the loop `for i in 0..players.len() { if p.address == player { ...; break } }`:
\* index (from 1) of the first player with that address, 0 when there is none
find_player(players, address) ==
    IF \E i \in 1..Len(players) : players[i].address = address
    THEN CHOOSE i \in 1..Len(players) :
            /\ players[i].address = address
            /\ \A j \in 1..(i - 1) : players[j].address # address
    ELSE 0

\* fault: the all-zero digest is accepted like any other
submit_commitment_unchecked(player, commitment) ==
    IF game_state = <<>> THEN Fail("NoState", 0, "")
    ELSE LET state == game_state[1]
             i == find_player(state.players, player)
         IN IF i = 0 THEN Fail("PlayerNotFound", 0, "")
            ELSE Ok(<<>>, [state EXCEPT !.players[i].commitment = commitment])

\* fault: a commitment already stored is kept (first write wins)
submit_commitment_first_write(player, commitment) ==
    IF commitment = ZERO_COMMITMENT THEN Fail("InvalidCommitment", 0, "")
    ELSE IF game_state = <<>> THEN Fail("NoState", 0, "")
    ELSE LET state == game_state[1]
             i == find_player(state.players, player)
         IN IF i = 0 THEN Fail("PlayerNotFound", 0, "")
            ELSE IF state.players[i].commitment # ZERO_COMMITMENT THEN Ok(<<>>, state)
            ELSE Ok(<<>>, [state EXCEPT !.players[i].commitment = commitment])

\* submit_commitment
submit_commitment(player, commitment) ==
    IF commitment = ZERO_COMMITMENT THEN Fail("InvalidCommitment", 0, "")
    ELSE IF game_state = <<>> THEN Fail("NoState", 0, "")
    ELSE LET state == game_state[1]
             i == find_player(state.players, player)
         IN IF i = 0 THEN Fail("PlayerNotFound", 0, "")
            ELSE Ok(<<>>, [state EXCEPT !.players[i].commitment = commitment])

\* set_verifier: writes the VERIFIER slot (the action installs it); never fails
set_verifier(address) == <<address>>

\* fault: the bet is not added to the player's current_bet
place_bet_untracked(player, amount) ==
    IF game_state = <<>> THEN Fail("NoState", 0, "")
    ELSE LET state == game_state[1]
             i == find_player(state.players, player)
             next_player == (state.current_player + 1) % 2
         IN IF i = 0 THEN Ok(<<>>, [state EXCEPT !.current_player = next_player])
            ELSE IF ~(state.players[i].chips >= amount) THEN Fail("InsufficientChips", 0, "")
            ELSE Ok(<<>>, [state EXCEPT !.players[i].chips = @ - amount,
                                         !.pot = @ + amount,
                                         !.current_player = next_player])

\* place_bet: an address that is no player only advances current_player
place_bet(player, amount) ==
    IF game_state = <<>> THEN Fail("NoState", 0, "")
    ELSE LET state == game_state[1]
             i == find_player(state.players, player)
             next_player == (state.current_player + 1) % 2
         IN IF i = 0 THEN Ok(<<>>, [state EXCEPT !.current_player = next_player])
            ELSE IF ~(state.players[i].chips >= amount) THEN Fail("InsufficientChips", 0, "")
            ELSE Ok(<<>>, [state EXCEPT !.players[i].chips = @ - amount,
                                         !.players[i].current_bet = @ + amount,
                                         !.pot = @ + amount,
                                         !.current_player = next_player])

\* fault: folding takes the player's current bet back out of the pot
fold_returns_bet(player) ==
    IF game_state = <<>> THEN Fail("NoState", 0, "")
    ELSE LET state == game_state[1]
             i == find_player(state.players, player)
         IN IF i = 0 THEN Ok(<<>>, state)
            ELSE Ok(<<>>, [state EXCEPT !.players[i].has_folded = TRUE,
                                         !.players[i].chips = @ + state.players[i].current_bet,
                                         !.pot = @ - state.players[i].current_bet])

\* fold
fold(player) ==
    IF game_state = <<>> THEN Fail("NoState", 0, "")
    ELSE LET state == game_state[1]
             i == find_player(state.players, player)
         IN IF i = 0 THEN Ok(<<>>, state)
            ELSE Ok(<<>>, [state EXCEPT !.players[i].has_folded = TRUE])

\* reveal_community_cards
reveal_community_cards(cards) ==
    IF game_state = <<>> THEN Fail("NoState", 0, "")
    ELSE Ok(<<>>, [game_state[1] EXCEPT !.community_cards = cards])

\* end_game: pays the pot to the winner when it is a player, deactivates the
\* session, leaves pot as it is, returns the address it was given
end_game(winner) ==
    IF game_state = <<>> THEN Fail("NoState", 0, "")
    ELSE LET state == game_state[1]
             i == find_player(state.players, winner)
             paid == IF i = 0 THEN state
                     ELSE [state EXCEPT !.players[i].chips = @ + state.pot]
         IN Ok(winner, [paid EXCEPT !.is_active = FALSE])

---------------------------------------------------------------------------
(* noir_verifier *)

\* proof_slice.iter().any(|b| *b != 0)
proof_non_zero(proof_bytes) == proof_bytes[1] # 0 \/ proof_bytes[2] # 0

\* proof_hash_arr.copy_from_slice(&proof_slice[..32])
proof_hash_of(proof_bytes) == proof_bytes[1]

\* fault: the gate lets a proof through whether or not an entry exists
att_verified_open(proof_hash) == TRUE

\* fault: a fingerprint that a settlement has used no longer opens the gate
att_verified_single_use(proof_hash) ==
    /\ proof_hash \in DOMAIN att_h
    /\ \/ game_state = <<>>
       \/ /\ game_state[1].player1_proof_hash # proof_hash
          /\ game_state[1].player2_proof_hash # proof_hash

\* the attestation gate of verify_proof: has(ATT_H, proof_hash), and, when the
\* entry exists, the constant true (the record's verified flag is not read)
att_verified(proof_hash) ==
    IF proof_hash \in DOMAIN att_h THEN TRUE ELSE FALSE

\* fault: two equal hole cards are let through
verify_proof_duplicates_allowed(hole_cards, salt, commitment, claimed_rank, proof_bytes, player) ==
    LET c1 == hole_cards[1]
        c2 == hole_cards[2]
    IN IF ~proof_non_zero(proof_bytes) THEN Fail("EmptyProof", 0, "")
       ELSE IF ~(c1 <= 51) THEN Fail("InvalidCard", 1, "")
       ELSE IF ~(c2 <= 51) THEN Fail("InvalidCard", 2, "")
       ELSE IF ~(claimed_rank <= 9) THEN Fail("InvalidRank", 0, "")
       ELSE IF ~att_verified(proof_hash_of(proof_bytes)) THEN Fail("AttestationMissing", 0, "")
       ELSE Ok(TRUE, <<>>)

\* fault: the rank is validated before the cards
verify_proof_rank_first(hole_cards, salt, commitment, claimed_rank, proof_bytes, player) ==
    LET c1 == hole_cards[1]
        c2 == hole_cards[2]
    IN IF ~proof_non_zero(proof_bytes) THEN Fail("EmptyProof", 0, "")
       ELSE IF ~(claimed_rank <= 9) THEN Fail("InvalidRank", 0, "")
       ELSE IF ~(c1 <= 51) THEN Fail("InvalidCard", 1, "")
       ELSE IF ~(c2 <= 51) THEN Fail("InvalidCard", 2, "")
       ELSE IF ~(c1 # c2) THEN Fail("DuplicateCard", 0, "")
       ELSE IF ~att_verified(proof_hash_of(proof_bytes)) THEN Fail("AttestationMissing", 0, "")
       ELSE Ok(TRUE, <<>>)

\* fault: the commitment is required to be the digest of the salt
verify_proof_commitment_bound(hole_cards, salt, commitment, claimed_rank, proof_bytes, player) ==
    LET c1 == hole_cards[1]
        c2 == hole_cards[2]
    IN IF ~proof_non_zero(proof_bytes) THEN Fail("EmptyProof", 0, "")
       ELSE IF ~(c1 <= 51) THEN Fail("InvalidCard", 1, "")
       ELSE IF ~(c2 <= 51) THEN Fail("InvalidCard", 2, "")
       ELSE IF ~(c1 # c2) THEN Fail("DuplicateCard", 0, "")
       ELSE IF ~(claimed_rank <= 9) THEN Fail("InvalidRank", 0, "")
       ELSE IF ~(commitment = salt) THEN Fail("CommitmentMismatch", 0, "")
       ELSE IF ~att_verified(proof_hash_of(proof_bytes)) THEN Fail("AttestationMissing", 0, "")
       ELSE Ok(TRUE, <<>>)

\* verify_proof: ordered asserts, then true; _salt and _commitment are unused
verify_proof(hole_cards, salt, commitment, claimed_rank, proof_bytes, player) ==
    LET c1 == hole_cards[1]
        c2 == hole_cards[2]
    IN IF ~proof_non_zero(proof_bytes) THEN Fail("EmptyProof", 0, "")
       ELSE IF ~(c1 <= 51) THEN Fail("InvalidCard", 1, "")
       ELSE IF ~(c2 <= 51) THEN Fail("InvalidCard", 2, "")
       ELSE IF ~(c1 # c2) THEN Fail("DuplicateCard", 0, "")
       ELSE IF ~(claimed_rank <= 9) THEN Fail("InvalidRank", 0, "")
       ELSE IF ~att_verified(proof_hash_of(proof_bytes)) THEN Fail("AttestationMissing", 0, "")
       ELSE Ok(TRUE, <<>>)

\* fault: the lower rank wins
resolve_winner_low_wins(p1_rank, p2_rank) ==
    IF ~(p1_rank <= 9) THEN Fail("InvalidRank", 1, "")
    ELSE IF ~(p2_rank <= 9) THEN Fail("InvalidRank", 2, "")
    ELSE Ok(IF p1_rank < p2_rank THEN 0 ELSE IF p2_rank < p1_rank THEN 1 ELSE 2, <<>>)

\* resolve_winner: 0 = player 1, 1 = player 2, 2 = tie
resolve_winner(p1_rank, p2_rank) ==
    IF ~(p1_rank <= 9) THEN Fail("InvalidRank", 1, "")
    ELSE IF ~(p2_rank <= 9) THEN Fail("InvalidRank", 2, "")
    ELSE Ok(IF p1_rank > p2_rank THEN 0 ELSE IF p2_rank > p1_rank THEN 1 ELSE 2, <<>>)

\* fault: the claimed rank is stored without being validated
record_zkverify_attestation_any_rank(attestation_id, proof_hash, player, claimed_rank, verified, block_hash) ==
    LET index == unwrap_or(att_cnt, 0)
        attestation == [attestation_id |-> attestation_id, proof_hash |-> proof_hash,
                        player |-> player, claimed_rank |-> claimed_rank,
                        verified |-> verified, block_hash |-> block_hash]
    IN Ok(index,
          [cnt |-> <<index + 1>>,
           att |-> [i \in DOMAIN att \cup {index} |->
                       IF i = index THEN attestation ELSE att[i]],
           att_h |-> [h \in DOMAIN att_h \cup {proof_hash} |->
                       IF h = proof_hash THEN attestation_id ELSE att_h[h]]])

\* fault: the first index handed out is 1
record_zkverify_attestation_from_one(attestation_id, proof_hash, player, claimed_rank, verified, block_hash) ==
    IF ~(claimed_rank <= 9) THEN Fail("InvalidRank", 0, "")
    ELSE LET index == unwrap_or(att_cnt, 1)
             attestation == [attestation_id |-> attestation_id, proof_hash |-> proof_hash,
                             player |-> player, claimed_rank |-> claimed_rank,
                             verified |-> verified, block_hash |-> block_hash]
         IN Ok(index,
               [cnt |-> <<index + 1>>,
                att |-> [i \in DOMAIN att \cup {index} |->
                            IF i = index THEN attestation ELSE att[i]],
                att_h |-> [h \in DOMAIN att_h \cup {proof_hash} |->
                            IF h = proof_hash THEN attestation_id ELSE att_h[h]]])

\* fault: the fingerprint lookup keeps only the entry written last
record_zkverify_attestation_one_entry(attestation_id, proof_hash, player, claimed_rank, verified, block_hash) ==
    IF ~(claimed_rank <= 9) THEN Fail("InvalidRank", 0, "")
    ELSE LET index == unwrap_or(att_cnt, 0)
             attestation == [attestation_id |-> attestation_id, proof_hash |-> proof_hash,
                             player |-> player, claimed_rank |-> claimed_rank,
                             verified |-> verified, block_hash |-> block_hash]
         IN Ok(index,
               [cnt |-> <<index + 1>>,
                att |-> [i \in DOMAIN att \cup {index} |->
                            IF i = index THEN attestation ELSE att[i]],
                att_h |-> [h \in {proof_hash} |-> attestation_id]])

\* fault: a recording also rewrites the earlier records of its fingerprint
record_zkverify_attestation_rewrite(attestation_id, proof_hash, player, claimed_rank, verified, block_hash) ==
    IF ~(claimed_rank <= 9) THEN Fail("InvalidRank", 0, "")
    ELSE LET index == unwrap_or(att_cnt, 0)
             attestation == [attestation_id |-> attestation_id, proof_hash |-> proof_hash,
                             player |-> player, claimed_rank |-> claimed_rank,
                             verified |-> verified, block_hash |-> block_hash]
         IN Ok(index,
               [cnt |-> <<index + 1>>,
                att |-> [i \in DOMAIN att \cup {index} |->
                            IF i = index THEN attestation
                            ELSE IF att[i].proof_hash = proof_hash THEN attestation
                            ELSE att[i]],
                att_h |-> [h \in DOMAIN att_h \cup {proof_hash} |->
                            IF h = proof_hash THEN attestation_id ELSE att_h[h]]])

\* fault: a fingerprint that has a lookup entry keeps it (first write wins)
record_zkverify_attestation_keep_entry(attestation_id, proof_hash, player, claimed_rank, verified, block_hash) ==
    IF ~(claimed_rank <= 9) THEN Fail("InvalidRank", 0, "")
    ELSE LET index == unwrap_or(att_cnt, 0)
             attestation == [attestation_id |-> attestation_id, proof_hash |-> proof_hash,
                             player |-> player, claimed_rank |-> claimed_rank,
                             verified |-> verified, block_hash |-> block_hash]
         IN Ok(index,
               [cnt |-> <<index + 1>>,
                att |-> [i \in DOMAIN att \cup {index} |->
                            IF i = index THEN attestation ELSE att[i]],
                att_h |-> [h \in DOMAIN att_h \cup {proof_hash} |->
                            IF h \in DOMAIN att_h THEN att_h[h] ELSE attestation_id]])

\* record_zkverify_attestation: returns the index; state is the new
\* <<ATT_CNT, (ATT, .) map, (ATT_H, .) map>>
record_zkverify_attestation(attestation_id, proof_hash, player, claimed_rank, verified, block_hash) ==
    IF ~(claimed_rank <= 9) THEN Fail("InvalidRank", 0, "")
    ELSE LET index == unwrap_or(att_cnt, 0)
             attestation == [attestation_id |-> attestation_id, proof_hash |-> proof_hash,
                             player |-> player, claimed_rank |-> claimed_rank,
                             verified |-> verified, block_hash |-> block_hash]
         IN Ok(index,
               [cnt |-> <<index + 1>>,
                att |-> [i \in DOMAIN att \cup {index} |->
                            IF i = index THEN attestation ELSE att[i]],
                att_h |-> [h \in DOMAIN att_h \cup {proof_hash} |->
                            IF h = proof_hash THEN attestation_id ELSE att_h[h]]])

\* get_attestation_count
get_attestation_count == Ok(unwrap_or(att_cnt, 0), <<>>)

\* get_attestation
get_attestation(index) ==
    IF index \in DOMAIN att THEN Ok(att[index], <<>>) ELSE Fail("NotFound", 0, "")

\* has_attestation
has_attestation(proof_hash) == Ok(proof_hash \in DOMAIN att_h, <<>>)

\* MockNoirVerifier.verify_proof: always true
mock_verify_proof(hole_cards, salt, commitment, claimed_rank, proof_bytes, player) ==
    Ok(TRUE, <<>>)

---------------------------------------------------------------------------
(* poker_game.resolve_showdown *)

\* player_id_bytes32: SHA-256("zkpoker_player_" || index), a non-zero digest
\* that differs between the two indices
player_id_bytes32(player_index) == player_index + 1

\* fault: the call goes to the address in the VERIFIER slot at the time of the
\* showdown, the session's own address being used only while the slot is empty
invoke_verify_proof_current_slot(verifier_addr, hole_cards, salt, commitment, claimed_rank, proof_bytes, player) ==
    LET addr == unwrap_or(verifier, verifier_addr)
    IN IF addr = NOIR
       THEN verify_proof(hole_cards, salt, commitment, claimed_rank, proof_bytes, player)
       ELSE IF addr = MOCK
       THEN mock_verify_proof(hole_cards, salt, commitment, claimed_rank, proof_bytes, player)
       ELSE Fail("NoContract", 0, "")

\* env.invoke_contract(&verifier_addr, "verify_proof", args): dispatches on the
\* address stored in the session; an address that is no contract traps
invoke_verify_proof(verifier_addr, hole_cards, salt, commitment, claimed_rank, proof_bytes, player) ==
    IF verifier_addr = NOIR
    THEN verify_proof(hole_cards, salt, commitment, claimed_rank, proof_bytes, player)
    ELSE IF verifier_addr = MOCK
    THEN mock_verify_proof(hole_cards, salt, commitment, claimed_rank, proof_bytes, player)
    ELSE Fail("NoContract", 0, "")

\* fault: the ranks are validated before the proof blobs
showdown_preconditions_ranks_first(state, player1_proof, player1_rank, player2_proof, player2_rank) ==
    LET p1 == state.players[1]
        p2 == state.players[2]
    IN IF ~state.is_active THEN Fail("GameInactive", 0, "")
       ELSE IF ~(p1.commitment # ZERO_COMMITMENT) THEN Fail("MissingCommitment", 1, "")
       ELSE IF ~(p2.commitment # ZERO_COMMITMENT) THEN Fail("MissingCommitment", 2, "")
       ELSE IF ~(player1_rank <= 9) THEN Fail("InvalidRank", 1, "")
       ELSE IF ~(player2_rank <= 9) THEN Fail("InvalidRank", 2, "")
       ELSE IF ~proof_non_zero(player1_proof) THEN Fail("EmptyProof", 1, "")
       ELSE IF ~proof_non_zero(player2_proof) THEN Fail("EmptyProof", 2, "")
       ELSE Ok(<<>>, <<>>)

\* fault: the commitment of player 2 is not required
showdown_preconditions_one_commitment(state, player1_proof, player1_rank, player2_proof, player2_rank) ==
    LET p1 == state.players[1]
    IN IF ~state.is_active THEN Fail("GameInactive", 0, "")
       ELSE IF ~(p1.commitment # ZERO_COMMITMENT) THEN Fail("MissingCommitment", 1, "")
       ELSE IF ~proof_non_zero(player1_proof) THEN Fail("EmptyProof", 1, "")
       ELSE IF ~proof_non_zero(player2_proof) THEN Fail("EmptyProof", 2, "")
       ELSE IF ~(player1_rank <= 9) THEN Fail("InvalidRank", 1, "")
       ELSE IF ~(player2_rank <= 9) THEN Fail("InvalidRank", 2, "")
       ELSE Ok(<<>>, <<>>)

\* fault: only the proof blob of player 1 is required to be non-trivial
showdown_preconditions_proof1_only(state, player1_proof, player1_rank, player2_proof, player2_rank) ==
    LET p1 == state.players[1]
        p2 == state.players[2]
    IN IF ~state.is_active THEN Fail("GameInactive", 0, "")
       ELSE IF ~(p1.commitment # ZERO_COMMITMENT) THEN Fail("MissingCommitment", 1, "")
       ELSE IF ~(p2.commitment # ZERO_COMMITMENT) THEN Fail("MissingCommitment", 2, "")
       ELSE IF ~proof_non_zero(player1_proof) THEN Fail("EmptyProof", 1, "")
       ELSE IF ~(player1_rank <= 9) THEN Fail("InvalidRank", 1, "")
       ELSE IF ~(player2_rank <= 9) THEN Fail("InvalidRank", 2, "")
       ELSE Ok(<<>>, <<>>)

\* steps 1, 2, 4, 5 of resolve_showdown: the asserts before the cross-contract calls
showdown_preconditions(state, player1_proof, player1_rank, player2_proof, player2_rank) ==
    LET p1 == state.players[1]
        p2 == state.players[2]
    IN IF ~state.is_active THEN Fail("GameInactive", 0, "")
       ELSE IF ~(p1.commitment # ZERO_COMMITMENT) THEN Fail("MissingCommitment", 1, "")
       ELSE IF ~(p2.commitment # ZERO_COMMITMENT) THEN Fail("MissingCommitment", 2, "")
       ELSE IF ~proof_non_zero(player1_proof) THEN Fail("EmptyProof", 1, "")
       ELSE IF ~proof_non_zero(player2_proof) THEN Fail("EmptyProof", 2, "")
       ELSE IF ~(player1_rank <= 9) THEN Fail("InvalidRank", 1, "")
       ELSE IF ~(player2_rank <= 9) THEN Fail("InvalidRank", 2, "")
       ELSE Ok(<<>>, <<>>)

\* steps 6-7: verify_proof on the session's verifier for player 1, then player 2;
\* a panic of the callee, or a false result, fails the call for that player
showdown_verification(state, player1_proof, player1_rank, player1_cards, player1_salt, player2_proof, player2_rank, player2_cards, player2_salt) ==
    LET result_p1 == invoke_verify_proof(state.verifier_contract, player1_cards, player1_salt,
                         state.players[1].commitment, player1_rank, player1_proof,
                         player_id_bytes32(0))
        result_p2 == invoke_verify_proof(state.verifier_contract, player2_cards, player2_salt,
                         state.players[2].commitment, player2_rank, player2_proof,
                         player_id_bytes32(1))
    IN IF ~result_p1.ok THEN Fail("VerificationFailed", 1, result_p1.err)
       ELSE IF ~result_p1.ret THEN Fail("VerificationFailed", 1, "ReturnedFalse")
       ELSE IF ~result_p2.ok THEN Fail("VerificationFailed", 2, result_p2.err)
       ELSE IF ~result_p2.ret THEN Fail("VerificationFailed", 2, "ReturnedFalse")
       ELSE Ok(<<>>, <<>>)

\* i128 division: truncates toward zero
div_trunc(a, b) == IF a >= 0 THEN a \div b ELSE -((-a) \div b)

\* fault: a tie pays half_pot to both players, the odd chip to nobody
showdown_payout_halves(players, pot, player1_rank, player2_rank) ==
    IF player1_rank > player2_rank
    THEN [winner |-> 1, players |-> [players EXCEPT ![1].chips = @ + pot]]
    ELSE IF player2_rank > player1_rank
    THEN [winner |-> 2, players |-> [players EXCEPT ![2].chips = @ + pot]]
    ELSE LET half_pot == div_trunc(pot, 2)
         IN [winner |-> 1,
             players |-> [players EXCEPT ![1].chips = @ + half_pot,
                                         ![2].chips = @ + half_pot]]

\* fault: a tie pays pot - half_pot to player 1 and half_pot to player 2
showdown_payout_swapped(players, pot, player1_rank, player2_rank) ==
    IF player1_rank > player2_rank
    THEN [winner |-> 1, players |-> [players EXCEPT ![1].chips = @ + pot]]
    ELSE IF player2_rank > player1_rank
    THEN [winner |-> 2, players |-> [players EXCEPT ![2].chips = @ + pot]]
    ELSE LET half_pot == div_trunc(pot, 2)
         IN [winner |-> 1,
             players |-> [players EXCEPT ![1].chips = @ + (pot - half_pot),
                                         ![2].chips = @ + half_pot]]

\* step 8: winner index (from 1) and the players after the pot is paid out
showdown_payout(players, pot, player1_rank, player2_rank) ==
    IF player1_rank > player2_rank
    THEN [winner |-> 1, players |-> [players EXCEPT ![1].chips = @ + pot]]
    ELSE IF player2_rank > player1_rank
    THEN [winner |-> 2, players |-> [players EXCEPT ![2].chips = @ + pot]]
    ELSE LET half_pot == div_trunc(pot, 2)
         IN [winner |-> 1,
             players |-> [players EXCEPT ![1].chips = @ + half_pot,
                                         ![2].chips = @ + (pot - half_pot)]]

\* fault: the commitment of player 2 survives the reset
showdown_reset_player1_only(state) ==
    [state EXCEPT !.players[1].commitment = ZERO_COMMITMENT,
                  !.players[1].current_bet = 0,
                  !.players[2].current_bet = 0,
                  !.pot = 0,
                  !.is_active = FALSE]

\* fault: the session stays active after the reset
showdown_reset_stays_active(state) ==
    [state EXCEPT !.players[1].commitment = ZERO_COMMITMENT,
                  !.players[1].current_bet = 0,
                  !.players[2].commitment = ZERO_COMMITMENT,
                  !.players[2].current_bet = 0,
                  !.pot = 0]

\* reset for the next hand: commitments, current bets, pot, is_active
showdown_reset(state) ==
    [state EXCEPT !.players[1].commitment = ZERO_COMMITMENT,
                  !.players[1].current_bet = 0,
                  !.players[2].commitment = ZERO_COMMITMENT,
                  !.players[2].current_bet = 0,
                  !.pot = 0,
                  !.is_active = FALSE]

\* fault: the commitments put in the event are read after the reset
showdown_settle_late_snapshot(state, player1_proof, player1_rank, player2_proof, player2_rank) ==
    LET hashed == [state EXCEPT !.player1_proof_hash = proof_hash_of(player1_proof),
                                !.player2_proof_hash = proof_hash_of(player2_proof)]
        paid == showdown_payout(hashed.players, hashed.pot, player1_rank, player2_rank)
        winner_address == state.players[paid.winner].address
        after == showdown_reset([hashed EXCEPT !.players = paid.players])
    IN [Ok(winner_address, after) EXCEPT
           !.event = <<"showdown", winner_address, player1_rank, player2_rank,
                       after.player1_proof_hash, after.player2_proof_hash,
                       after.players[1].commitment, after.players[2].commitment>>]

\* the mutation pass of resolve_showdown: proof hashes, payout, reset, and the
\* published event (topics and data)
showdown_settle(state, player1_proof, player1_rank, player2_proof, player2_rank) ==
    LET hashed == [state EXCEPT !.player1_proof_hash = proof_hash_of(player1_proof),
                                !.player2_proof_hash = proof_hash_of(player2_proof)]
        paid == showdown_payout(hashed.players, hashed.pot, player1_rank, player2_rank)
        winner_address == state.players[paid.winner].address
        p1_commit_snapshot == paid.players[1].commitment
        p2_commit_snapshot == paid.players[2].commitment
        after == showdown_reset([hashed EXCEPT !.players = paid.players])
    IN [Ok(winner_address, after) EXCEPT
           !.event = <<"showdown", winner_address, player1_rank, player2_rank,
                       after.player1_proof_hash, after.player2_proof_hash,
                       p1_commit_snapshot, p2_commit_snapshot>>]

\* fault: the proof fingerprints are written to the session before the
\* verification gate, and a gate failure is reported without unwinding the write
resolve_showdown_early_write(player1_proof, player1_rank, player1_cards, player1_salt, player2_proof, player2_rank, player2_cards, player2_salt) ==
    IF game_state = <<>> THEN Fail("NoState", 0, "")
    ELSE LET state == game_state[1]
             pre == showdown_preconditions(state, player1_proof, player1_rank,
                                           player2_proof, player2_rank)
             gate == showdown_verification(state, player1_proof, player1_rank, player1_cards,
                                           player1_salt, player2_proof, player2_rank,
                                           player2_cards, player2_salt)
         IN IF ~pre.ok THEN pre
            ELSE IF ~gate.ok
            THEN [gate EXCEPT !.state =
                     [state EXCEPT !.player1_proof_hash = proof_hash_of(player1_proof),
                                   !.player2_proof_hash = proof_hash_of(player2_proof)]]
            ELSE showdown_settle(state, player1_proof, player1_rank, player2_proof, player2_rank)

\* resolve_showdown
resolve_showdown(player1_proof, player1_rank, player1_cards, player1_salt, player2_proof, player2_rank, player2_cards, player2_salt) ==
    IF game_state = <<>> THEN Fail("NoState", 0, "")
    ELSE LET state == game_state[1]
             pre == showdown_preconditions(state, player1_proof, player1_rank,
                                           player2_proof, player2_rank)
             gate == showdown_verification(state, player1_proof, player1_rank, player1_cards,
                                           player1_salt, player2_proof, player2_rank,
                                           player2_cards, player2_salt)
         IN IF ~pre.ok THEN pre
            ELSE IF ~gate.ok THEN gate
            ELSE showdown_settle(state, player1_proof, player1_rank, player2_proof, player2_rank)

---------------------------------------------------------------------------
(* game_hub *)

\* game_id_data[0..8] = timestamp.to_be_bytes(), the other 24 bytes zero: the
\* identifier is determined by the timestamp alone
game_id_of(timestamp) == timestamp

\* the Game written by start_game
Game(game_id, player1, player2, timestamp) ==
    [game_id |-> game_id, player1 |-> player1, player2 |-> player2,
     started_at |-> timestamp, ended_at |-> 0, winner |-> <<>>, is_active |-> TRUE]

\* Map::new(&env)
map_new == [k \in {} |-> 0]

\* Map::set: the entry is added, or replaces the one stored under that key
map_set(map, key, value) ==
    [k \in DOMAIN map \cup {key} |-> IF k = key THEN value ELSE map[k]]

\* start_game: stores a fresh Game under the identifier of the current
\* timestamp and returns the identifier; never fails
hub_start_game(player1, player2) ==
    LET timestamp == ledger_time
        game_id == game_id_of(timestamp)
        registry == unwrap_or(games, map_new)
    IN Ok(game_id, map_set(registry, game_id, Game(game_id, player1, player2, timestamp)))

\* fault: the winner is recorded without being compared with the players
hub_end_game_any_winner(game_id, winner) ==
    IF games = <<>> THEN Fail("NoRegistry", 0, "")
    ELSE IF game_id \notin DOMAIN games[1] THEN Fail("GameNotFound", 0, "")
    ELSE LET game == games[1][game_id]
         IN Ok(<<>>, map_set(games[1], game_id,
                             [game EXCEPT !.ended_at = ledger_time,
                                          !.winner = <<winner>>,
                                          !.is_active = FALSE]))

\* end_game: the registry and the game must exist and the winner must be one
\* of the game's players; then ended_at, winner and is_active are written
hub_end_game(game_id, winner) ==
    IF games = <<>> THEN Fail("NoRegistry", 0, "")
    ELSE IF game_id \notin DOMAIN games[1] THEN Fail("GameNotFound", 0, "")
    ELSE LET game == games[1][game_id]
         IN IF ~(game.player1 = winner \/ game.player2 = winner)
            THEN Fail("WinnerNotPlayer", 0, "")
            ELSE Ok(<<>>, map_set(games[1], game_id,
                                  [game EXCEPT !.ended_at = ledger_time,
                                               !.winner = <<winner>>,
                                               !.is_active = FALSE]))

\* get_game
hub_get_game(game_id) ==
    IF games = <<>> THEN Fail("NoRegistry", 0, "")
    ELSE IF game_id \notin DOMAIN games[1] THEN Fail("GameNotFound", 0, "")
    ELSE Ok(games[1][game_id], <<>>)

---------------------------------------------------------------------------
(* Calls *)

NoStore == [i \in {} |-> 0]

\* no call is being reported: the caller has read the result of the latest one
Idle ==
    [op |-> "idle", args |-> <<>>, ok |-> TRUE, err |-> "", who |-> 0, inner |-> "",
     ret |-> <<>>, event |-> <<>>, pre |-> <<>>, pre_att |-> <<>>, pre_committed |-> {},
     pre_games |-> <<>>]

\* what a call reports to its caller: the operation, its arguments, its outcome,
\* and the storage of both contracts as it was before the call.  Calls are
\* serialized: the next one starts after the caller has read this report.
Observe(op, args, out) ==
    last' = [op |-> op, args |-> args, ok |-> out.ok, err |-> out.err, who |-> out.who,
             inner |-> out.inner, ret |-> out.ret, event |-> out.event,
             pre |-> game_state, pre_att |-> <<att_cnt, att, att_h>>,
             pre_committed |-> committed, pre_games |-> games]

\* the latest report has been read: the next call may start
Ready == last.op = "idle"

\* the caller reads the report of the latest call
Return ==
    /\ last.op # "idle"
    /\ last' = Idle
    /\ UNCHANGED <<game_state, verifier, att_cnt, att, att_h, committed, nbets, nends, recorded, contributed, settled, hubVars>>

\* env.storage().instance().set(&GAME_STATE, &state): a poker_game call installs
\* the GameState it wrote; a call that panicked wrote nothing (state = <<>>)
StoreGame(out) == game_state' = IF out.state = <<>> THEN game_state ELSE <<out.state>>

Init ==
    /\ game_state = <<>>
    /\ verifier = <<>>
    /\ att_cnt = <<>>
    /\ att = NoStore
    /\ att_h = NoStore
    /\ last = Idle
    /\ committed = {}
    /\ nbets = 0
    /\ nends = 0
    /\ recorded = <<>>
    /\ contributed = 0
    /\ settled = 0
    /\ games = <<>>
    /\ ledger_time = 0

InitGame(player1, player2, starting_chips) ==
    LET out == init_game(1, player1, player2, starting_chips)
    IN /\ Ready
       /\ StoreGame(out)
       /\ Observe("init_game", <<player1, player2, starting_chips>>, out)
       /\ committed' = {}
       /\ nbets' = 0
       /\ nends' = 0
       /\ contributed' = 0
       /\ settled' = 0
       /\ UNCHANGED <<verifier, attVars, recorded, hubVars>>

SetVerifier(address) ==
    /\ Ready
    /\ verifier' = set_verifier(address)
    /\ Observe("set_verifier", <<address>>, Ok(<<>>, <<>>))
    /\ UNCHANGED <<game_state, attVars, committed, nbets, nends, recorded, contributed, settled, hubVars>>

SubmitCommitment(player, commitment) ==
    LET out == submit_commitment(player, commitment)
    IN /\ Ready
       /\ StoreGame(out)
       /\ Observe("submit_commitment", <<player, commitment>>, out)
       /\ committed' = IF out.ok
                       THEN committed \cup {find_player(out.state.players, player)}
                       ELSE committed
       /\ UNCHANGED <<verifier, attVars, nbets, nends, recorded, contributed, settled, hubVars>>

PlaceBet(player, amount) ==
    LET out == place_bet(player, amount)
    IN /\ Ready
       /\ nbets < MaxBets
       /\ StoreGame(out)
       /\ Observe("place_bet", <<player, amount>>, out)
       /\ nbets' = nbets + 1
       /\ contributed' = IF out.ok /\ find_player(game_state[1].players, player) # 0
                        THEN contributed + amount ELSE contributed
       /\ UNCHANGED <<verifier, attVars, committed, nends, recorded, settled, hubVars>>

Fold(player) ==
    LET out == fold(player)
    IN /\ Ready
       /\ StoreGame(out)
       /\ Observe("fold", <<player>>, out)
       /\ UNCHANGED <<verifier, attVars, committed, nbets, nends, recorded, contributed, settled, hubVars>>

RevealCommunityCards(cards) ==
    LET out == reveal_community_cards(cards)
    IN /\ Ready
       /\ StoreGame(out)
       /\ Observe("reveal_community_cards", <<cards>>, out)
       /\ UNCHANGED <<verifier, attVars, committed, nbets, nends, recorded, contributed, settled, hubVars>>

EndGame(winner) ==
    LET out == end_game(winner)
    IN /\ Ready
       /\ nends < MaxEnds
       /\ StoreGame(out)
       /\ Observe("end_game", <<winner>>, out)
       /\ nends' = nends + 1
       /\ contributed' = IF out.ok /\ find_player(game_state[1].players, winner) # 0
                        THEN 0 ELSE contributed
       /\ UNCHANGED <<verifier, attVars, committed, nbets, recorded, settled, hubVars>>

ResolveShowdown(player1_proof, player1_rank, player1_cards, player1_salt, player2_proof, player2_rank, player2_cards, player2_salt) ==
    LET out == resolve_showdown(player1_proof, player1_rank, player1_cards, player1_salt,
                                player2_proof, player2_rank, player2_cards, player2_salt)
    IN /\ Ready
       /\ StoreGame(out)
       /\ Observe("resolve_showdown",
                  <<player1_proof, player1_rank, player1_cards, player1_salt,
                    player2_proof, player2_rank, player2_cards, player2_salt>>, out)
       /\ committed' = IF out.ok THEN {} ELSE committed
       /\ contributed' = IF out.ok THEN 0 ELSE contributed
       /\ settled' = IF out.ok THEN settled + 1 ELSE settled
       /\ UNCHANGED <<verifier, attVars, nbets, nends, recorded, hubVars>>

RecordZkverifyAttestation(attestation_id, proof_hash, player, claimed_rank, verified, block_hash) ==
    LET out == record_zkverify_attestation(attestation_id, proof_hash, player, claimed_rank,
                                           verified, block_hash)
    IN /\ Ready
       /\ unwrap_or(att_cnt, 0) < MaxAtt
       /\ att_cnt' = IF out.ok THEN out.state.cnt ELSE att_cnt
       /\ att' = IF out.ok THEN out.state.att ELSE att
       /\ att_h' = IF out.ok THEN out.state.att_h ELSE att_h
       /\ Observe("record_zkverify_attestation",
                  <<attestation_id, proof_hash, player, claimed_rank, verified, block_hash>>, out)
       /\ recorded' = IF out.ok THEN Append(recorded, out.state.att[out.ret]) ELSE recorded
       /\ UNCHANGED <<pokerVars, committed, nbets, nends, contributed, settled, hubVars>>

VerifyProof(hole_cards, salt, commitment, claimed_rank, proof_bytes, player) ==
    LET out == verify_proof(hole_cards, salt, commitment, claimed_rank, proof_bytes, player)
    IN /\ Ready
       /\ Observe("verify_proof",
                  <<hole_cards, salt, commitment, claimed_rank, proof_bytes, player>>, out)
       /\ UNCHANGED <<pokerVars, attVars, committed, nbets, nends, recorded, contributed, settled, hubVars>>

ResolveWinner(p1_rank, p2_rank) ==
    LET out == resolve_winner(p1_rank, p2_rank)
    IN /\ Ready
       /\ Observe("resolve_winner", <<p1_rank, p2_rank>>, out)
       /\ UNCHANGED <<pokerVars, attVars, committed, nbets, nends, recorded, contributed, settled, hubVars>>

GetAttestationCount ==
    /\ Ready
    /\ Observe("get_attestation_count", <<>>, get_attestation_count)
    /\ UNCHANGED <<pokerVars, attVars, committed, nbets, nends, recorded, contributed, settled, hubVars>>

GetAttestation(index) ==
    LET out == get_attestation(index)
    IN /\ Ready
       /\ Observe("get_attestation", <<index>>, out)
       /\ UNCHANGED <<pokerVars, attVars, committed, nbets, nends, recorded, contributed, settled, hubVars>>

HasAttestation(proof_hash) ==
    LET out == has_attestation(proof_hash)
    IN /\ Ready
       /\ Observe("has_attestation", <<proof_hash>>, out)
       /\ UNCHANGED <<pokerVars, attVars, committed, nbets, nends, recorded, contributed, settled, hubVars>>

HubStartGame(player1, player2) ==
    LET out == hub_start_game(player1, player2)
    IN /\ Ready
       /\ games' = <<out.state>>
       /\ Observe("game_hub.start_game", <<player1, player2>>, out)
       /\ UNCHANGED <<pokerVars, attVars, committed, nbets, nends, recorded, contributed, settled, ledger_time>>

HubEndGame(game_id, winner) ==
    LET out == hub_end_game(game_id, winner)
    IN /\ Ready
       /\ games' = IF out.ok THEN <<out.state>> ELSE games
       /\ Observe("game_hub.end_game", <<game_id, winner>>, out)
       /\ UNCHANGED <<pokerVars, attVars, committed, nbets, nends, recorded, contributed, settled, ledger_time>>

HubGetGame(game_id) ==
    LET out == hub_get_game(game_id)
    IN /\ Ready
       /\ Observe("game_hub.get_game", <<game_id>>, out)
       /\ UNCHANGED <<pokerVars, attVars, committed, nbets, nends, recorded, contributed, settled, hubVars>>

\* a ledger closes: the timestamp seen by the next call is later
LedgerCloses ==
    /\ Ready
    /\ ledger_time < MaxTime
    /\ ledger_time' = ledger_time + 1
    /\ UNCHANGED <<pokerVars, attVars, last, committed, nbets, nends, recorded, contributed, settled, games>>

---------------------------------------------------------------------------
(* Specifications *)

\* inputs of the settlement environment
ShowdownProofs == {<<0, 0>>, <<1, 0>>, <<2, 0>>}
ShowdownRanks == {3, 4, 6, 10}
ShowdownCards1 == {<<51, 38>>}
ShowdownCards2 == {<<7, 8>>}
BetAmounts == {-1, 101}

\* Settlement: a session is set up, committed to, bet on, attested for and resolved
Next ==
    \/ SetVerifier(NOIR)
    \/ \E s \in StartingChips : InitGame("A", "B", s)
    \/ \E p \in Accounts, c \in {ZERO_COMMITMENT, 1} : SubmitCommitment(p, c)
    \/ \E p \in {"A", "B"}, a \in BetAmounts : PlaceBet(p, a)
    \/ \E h \in {unwrap_or(att_cnt, 0) + 1} :
          RecordZkverifyAttestation("att", h, player_id_bytes32(0), 6, TRUE, "blk")
    \/ \E pr1 \in ShowdownProofs, r1 \in ShowdownRanks, c1 \in ShowdownCards1,
          pr2 \in ShowdownProofs, r2 \in ShowdownRanks, c2 \in ShowdownCards2 :
          ResolveShowdown(pr1, r1, c1, 1, pr2, r2, c2, 2)
    \/ Return

Spec == Init /\ [][Next]_vars

\* Session: every poker_game operation, on a session bound to the mock verifier
NextSession ==
    \/ SetVerifier(MOCK)
    \/ \E s \in StartingChips : InitGame("A", "B", s)
    \/ \E p \in Accounts, c \in Digests : SubmitCommitment(p, c)
    \/ \E p \in {"A", "X"}, a \in BetAmounts : PlaceBet(p, a)
    \/ \E p \in {"B", "X"} : Fold(p)
    \/ RevealCommunityCards(<<1, 2, 3>>)
    \/ \E w \in {"A", "X"} : EndGame(w)
    \/ \E pr1 \in {<<0, 0>>, <<1, 0>>}, r1 \in {4, 6}, pr2 \in {<<0, 0>>, <<1, 0>>}, r2 \in {4, 6} :
          ResolveShowdown(pr1, r1, <<51, 38>>, 1, pr2, r2, <<7, 8>>, 2)
    \/ Return

SpecSession == Init /\ [][NextSession]_vars

\* Verifier: the noir_verifier contract called directly
NextVerifier ==
    \/ \E id \in {"att1", "att2"}, h \in {1, 2}, r \in {6, 10}, v \in BOOLEAN :
          RecordZkverifyAttestation(id, h, player_id_bytes32(0), r, v, "blk")
    \/ \E c \in Cards \cup {<<52, 52>>}, r \in Ranks, p \in Proofs, k \in Digests :
          VerifyProof(c, 1, k, r, p, player_id_bytes32(0))
    \/ \E r1 \in Ranks, r2 \in Ranks : ResolveWinner(r1, r2)
    \/ GetAttestationCount
    \/ \E i \in 0..MaxAtt : GetAttestation(i)
    \/ \E h \in Digests : HasAttestation(h)
    \/ Return

SpecVerifier == Init /\ [][NextVerifier]_vars

\* Hands: showdowns through the real verifier over every kind of revealed hand
NextHands ==
    \/ SetVerifier(NOIR)
    \/ \E s \in StartingChips : InitGame("A", "B", s)
    \/ \E p \in {"A", "B"} : SubmitCommitment(p, 1)
    \/ PlaceBet("A", 101)
    \/ RecordZkverifyAttestation("att", 1, player_id_bytes32(0), 6, TRUE, "blk")
    \/ \E c1 \in Cards, r1 \in {6, 10}, c2 \in Cards :
          ResolveShowdown(<<1, 0>>, r1, c1, 1, <<1, 0>>, 3, c2, 2)
    \/ Return

SpecHands == Init /\ [][NextHands]_vars

\* Attestations: the store is written, read and used by settlements
NextAttest ==
    \/ SetVerifier(NOIR)
    \/ \E s \in StartingChips : InitGame("A", "B", s)
    \/ \E p \in {"A", "B"} : SubmitCommitment(p, 1)
    \/ \E id \in {"att1", "att2"}, h \in {1, 2} :
          RecordZkverifyAttestation(id, h, player_id_bytes32(0), 6, TRUE, "blk")
    \/ \E p \in {<<1, 0>>, <<2, 0>>} :
          VerifyProof(<<51, 38>>, 1, 1, 6, p, player_id_bytes32(0))
    \/ GetAttestationCount
    \/ \E i \in 0..MaxAtt : GetAttestation(i)
    \/ \E h \in {1, 2} : HasAttestation(h)
    \/ \E pr1 \in {<<1, 0>>, <<2, 0>>}, pr2 \in {<<1, 0>>, <<2, 0>>} :
          ResolveShowdown(pr1, 6, <<51, 38>>, 1, pr2, 3, <<7, 8>>, 2)
    \/ Return

SpecAttest == Init /\ [][NextAttest]_vars

\* System: every operation of both contracts, on a session bound to the mock verifier
NextSystem ==
    \/ SetVerifier(MOCK)
    \/ \E s \in StartingChips : InitGame("A", "B", s)
    \/ \E p \in {"A", "B"}, c \in {ZERO_COMMITMENT, 1} : SubmitCommitment(p, c)
    \/ \E p \in {"A", "B"}, a \in {50, 102} : PlaceBet(p, a)
    \/ Fold("B")
    \/ RevealCommunityCards(<<1, 2, 3>>)
    \/ \E w \in {"A", "X"} : EndGame(w)
    \/ \E pr1 \in {<<0, 0>>, <<1, 0>>}, r1 \in {4, 6} :
          ResolveShowdown(pr1, r1, <<51, 38>>, 1, <<1, 0>>, 4, <<7, 8>>, 2)
    \/ \E r \in {6, 10} : RecordZkverifyAttestation("att", 1, player_id_bytes32(0), r, TRUE, "blk")
    \/ VerifyProof(<<51, 38>>, 1, 1, 6, <<1, 0>>, player_id_bytes32(0))
    \/ ResolveWinner(6, 4)
    \/ GetAttestationCount
    \/ GetAttestation(0)
    \/ HasAttestation(1)
    \/ Return

SpecSystem == Init /\ [][NextSystem]_vars

\* Binding: the VERIFIER slot is rewritten between and during hands
NextBinding ==
    \/ \E v \in {NOIR, MOCK} : SetVerifier(v)
    \/ \E s \in StartingChips : InitGame("A", "B", s)
    \/ \E p \in {"A", "B"} : SubmitCommitment(p, 1)
    \/ PlaceBet("A", 101)
    \/ RecordZkverifyAttestation("att", 1, player_id_bytes32(0), 6, TRUE, "blk")
    \/ \E pr1 \in {<<1, 0>>, <<2, 0>>}, c1 \in {<<51, 38>>, <<7, 7>>} :
          ResolveShowdown(pr1, 6, c1, 1, <<1, 0>>, 3, <<7, 8>>, 2)
    \/ Return

SpecBinding == Init /\ [][NextBinding]_vars

\* Hub: games are started, ended and read while ledgers close
NextHub ==
    \/ \E p \in {<<"A", "B">>, <<"B", "X">>} : HubStartGame(p[1], p[2])
    \/ \E id \in 0..MaxTime, w \in Accounts : HubEndGame(game_id_of(id), w)
    \/ \E id \in 0..MaxTime : HubGetGame(game_id_of(id))
    \/ LedgerCloses
    \/ Return

SpecHub == Init /\ [][NextHub]_vars

---------------------------------------------------------------------------
(* Reading the report of a resolve_showdown call *)

\* the latest call was resolve_showdown on an initialised contract
Showdown == last.op = "resolve_showdown" /\ last.pre # <<>>
\* the session before and after that call
Before == last.pre[1]
After == game_state[1]
\* the (ATT_H, .) entries before that call
AttestedBefore == DOMAIN last.pre_att[3]
\* its arguments
ArgProof(i) == IF i = 1 THEN last.args[1] ELSE last.args[5]
ArgRank(i) == IF i = 1 THEN last.args[2] ELSE last.args[6]
ArgCards(i) == IF i = 1 THEN last.args[3] ELSE last.args[7]
\* chips gained by player i in that call
Gain(i) == After.players[i].chips - Before.players[i].chips
\* the arguments of player i are well formed
ValidCards(c) == c[1] <= 51 /\ c[2] <= 51 /\ c[1] # c[2]
WellFormed(i) ==
    /\ ArgProof(i) # <<0, 0>>
    /\ ArgRank(i) \in 0..9
    /\ ValidCards(ArgCards(i))

---------------------------------------------------------------------------
(* Claims on settlement, checked under Spec *)

\* C1: whenever resolve_showdown fails, at whatever gate, the session after the
\* call is the session before it (pot, chips, commitments, current bets,
\* is_active, stored proof fingerprints).
C1_FailedShowdownChangesNothing ==
    (last.op = "resolve_showdown" /\ ~last.ok) => game_state = last.pre

\* C1 witness: a showdown that failed at the verification gate of player 2, after
\* player 1 passed it, on a session with chips in the pot
C1_Witness ==
    /\ Showdown /\ ~last.ok
    /\ last.err = "VerificationFailed" /\ last.who = 2
    /\ Before.pot # 0

C3_PotConservation ==
    (Showdown /\ last.ok) => Gain(1) + Gain(2) = Before.pot

\* C3 witness: a tie settled on an odd pot
C3_Witness ==
    /\ Showdown /\ last.ok
    /\ ArgRank(1) = ArgRank(2)
    /\ Before.pot > 0 /\ Before.pot % 2 = 1

\* C4: on every successful resolve_showdown the higher rank takes the whole pot
\* and is returned as winner; equal ranks give floor(pot/2) to player 1 and
\* pot - floor(pot/2) to player 2.
C4_PayoutByRank ==
    (Showdown /\ last.ok) =>
        IF ArgRank(1) > ArgRank(2)
        THEN Gain(1) = Before.pot /\ Gain(2) = 0 /\ last.ret = Before.players[1].address
        ELSE IF ArgRank(2) > ArgRank(1)
        THEN Gain(2) = Before.pot /\ Gain(1) = 0 /\ last.ret = Before.players[2].address
        ELSE Gain(1) = Before.pot \div 2 /\ Gain(2) = Before.pot - (Before.pot \div 2)

GatePasses(i) ==
    \/ Before.verifier_contract = MOCK
    \/ /\ Before.verifier_contract = NOIR
       /\ ValidCards(ArgCards(i))
       /\ proof_hash_of(ArgProof(i)) \in AttestedBefore

\* the first gate, in the order a..e, that a showdown does not pass
FirstFailingGate ==
    IF ~Before.is_active THEN <<"GameInactive", 0>>
    ELSE IF Before.players[1].commitment = ZERO_COMMITMENT THEN <<"MissingCommitment", 1>>
    ELSE IF Before.players[2].commitment = ZERO_COMMITMENT THEN <<"MissingCommitment", 2>>
    ELSE IF ArgProof(1) = <<0, 0>> THEN <<"EmptyProof", 1>>
    ELSE IF ArgProof(2) = <<0, 0>> THEN <<"EmptyProof", 2>>
    ELSE IF ArgRank(1) > 9 THEN <<"InvalidRank", 1>>
    ELSE IF ArgRank(2) > 9 THEN <<"InvalidRank", 2>>
    ELSE IF ~GatePasses(1) THEN <<"VerificationFailed", 1>>
    ELSE IF ~GatePasses(2) THEN <<"VerificationFailed", 2>>
    ELSE <<"", 0>>

\* C6: resolve_showdown reports the error of the first failing gate in the order
\* active, commitment 1, commitment 2, proof 1, proof 2, rank 1, rank 2,
\* verification 1, verification 2; an inactive session gives GameInactive
\* whatever the rest is.
C6_FirstFailingGateIsReported ==
    Showdown => <<last.err, last.who>> = FirstFailingGate

\* C6 witness: GameInactive on a session whose commitments, proofs, ranks, cards
\* and attestations would all pass
C6_Witness ==
    /\ Showdown
    /\ ~Before.is_active
    /\ \A i \in 1..2 :
          /\ Before.players[i].commitment # ZERO_COMMITMENT
          /\ WellFormed(i)
          /\ proof_hash_of(ArgProof(i)) \in AttestedBefore
    /\ last.err = "GameInactive"

\* C7: after every successful resolve_showdown both commitments are the
\* sentinel, both current bets and the pot are 0 and the session is inactive;
\* and the showdown of cards [51,38] rank 6 against cards [7,8] rank 3, both
\* fingerprints attested, succeeds, returns player 1 and pays player 1 the pot.
C7_SettledSessionIsReset ==
    /\ (Showdown /\ last.ok) =>
          /\ \A i \in 1..2 : /\ After.players[i].commitment = ZERO_COMMITMENT
                             /\ After.players[i].current_bet = 0
          /\ After.pot = 0
          /\ ~After.is_active
    /\ ( /\ Showdown
         /\ Before.is_active /\ Before.verifier_contract = NOIR
         /\ \A i \in 1..2 :
               /\ Before.players[i].commitment # ZERO_COMMITMENT
               /\ ArgProof(i) # <<0, 0>>
               /\ proof_hash_of(ArgProof(i)) \in AttestedBefore
         /\ ArgCards(1) = <<51, 38>> /\ ArgRank(1) = 6
         /\ ArgCards(2) = <<7, 8>> /\ ArgRank(2) = 3 )
       => ( /\ last.ok
            /\ last.ret = Before.players[1].address
            /\ Gain(1) = Before.pot
            /\ Gain(2) = 0 )

\* C7 witness: that showdown, on two different attested fingerprints and a pot
C7_Witness ==
    /\ Showdown /\ last.ok
    /\ ArgCards(1) = <<51, 38>> /\ ArgRank(1) = 6
    /\ ArgCards(2) = <<7, 8>> /\ ArgRank(2) = 3
    /\ proof_hash_of(ArgProof(1)) # proof_hash_of(ArgProof(2))
    /\ Before.pot > 0
    /\ Before.players[1].current_bet > 0

\* C10 as claimed: a successful showdown follows a successful submit_commitment
\* of each player since the latest init_game or settlement, and a showdown
\* attempted while a commitment is the sentinel fails with MissingCommitment for
\* a player whose commitment is the sentinel.
C10_AsClaimed ==
    /\ (Showdown /\ last.ok) => last.pre_committed = {1, 2}
    /\ (Showdown /\ \E i \in 1..2 : Before.players[i].commitment = ZERO_COMMITMENT)
          => ( /\ ~last.ok
               /\ last.err = "MissingCommitment"
               /\ last.who \in 1..2
               /\ Before.players[last.who].commitment = ZERO_COMMITMENT )

\* C10 amended: a successful showdown follows a successful submit_commitment of
\* each player since the latest init_game or settlement, and a showdown
\* attempted on an active session while a commitment is the sentinel fails with
\* MissingCommitment for the first player (1, then 2) whose commitment is the
\* sentinel.
C10_CommitPrecedesSettle ==
    /\ (Showdown /\ last.ok) => last.pre_committed = {1, 2}
    /\ ( /\ Showdown /\ Before.is_active
         /\ \E i \in 1..2 : Before.players[i].commitment = ZERO_COMMITMENT )
          => ( /\ ~last.ok
               /\ last.err = "MissingCommitment"
               /\ last.who = IF Before.players[1].commitment = ZERO_COMMITMENT THEN 1 ELSE 2 )

\* C10 witness: an active session where only player 1 has committed was taken to
\* showdown with arguments that would pass
C10_Witness ==
    /\ Showdown /\ Before.is_active
    /\ last.pre_committed = {1}
    /\ Before.players[2].commitment = ZERO_COMMITMENT
    /\ \A i \in 1..2 : WellFormed(i) /\ proof_hash_of(ArgProof(i)) \in AttestedBefore
    /\ last.err = "MissingCommitment" /\ last.who = 2

---------------------------------------------------------------------------
(* Claims on the verification gate, checked under SpecVerifier *)

---------------------------------------------------------------------------
(* Claims on the commitment ledger, checked under SpecSession *)

\* the session holds a commitment for player i that it did not hold, as that
\* value, before the latest call
CommitmentChanged(i) ==
    /\ last.op # "idle"
    /\ game_state # <<>>
    /\ \/ last.pre = <<>>
       \/ game_state[1].players[i].commitment # last.pre[1].players[i].commitment

\* C9: submit_commitment of the all-zero digest fails for every caller in every
\* session state and leaves the session as it was; a stored commitment becomes
\* non-sentinel only by a successful submit_commitment, and sentinel only by
\* init_game or a successful resolve_showdown.
C9_SentinelIsNeverSubmitted ==
    /\ (last.op = "submit_commitment" /\ last.args[2] = ZERO_COMMITMENT)
          => (~last.ok /\ last.err = "InvalidCommitment" /\ game_state = last.pre)
    /\ \A i \in 1..2 :
          CommitmentChanged(i) =>
             IF game_state[1].players[i].commitment # ZERO_COMMITMENT
             THEN last.op = "submit_commitment" /\ last.ok
             ELSE last.op \in {"init_game", "resolve_showdown"} /\ last.ok

\* C9 witness: player 2 submitted the all-zero digest over a commitment it holds,
\* on a session that is no longer active
C9_Witness ==
    /\ last.op = "submit_commitment"
    /\ last.args = <<"B", ZERO_COMMITMENT>>
    /\ last.pre # <<>>
    /\ ~last.pre[1].is_active
    /\ last.pre[1].players[2].commitment # ZERO_COMMITMENT
    /\ ~last.ok

---------------------------------------------------------------------------
(* Claims on the session's own gates, checked under SpecSession, where the
   verifier bound to the session accepts everything *)

\* C11: resolve_showdown never succeeds when the 128-byte proof blob of either
\* player is entirely zero: the call fails, and pot and both chip balances are
\* afterwards what they were before.
C11_ZeroProofNeverSettles ==
    (last.op = "resolve_showdown" /\ \E i \in 1..2 : ArgProof(i) = <<0, 0>>) =>
        /\ ~last.ok
        /\ game_state = <<>> <=> last.pre = <<>>
        /\ last.pre # <<>> =>
             /\ After.pot = Before.pot
             /\ \A i \in 1..2 : After.players[i].chips = Before.players[i].chips

\* C11 witness: on an active, committed session holding a pot, player 2 offered
\* an all-zero blob next to a non-trivial one of player 1, with ranks in range
C11_Witness ==
    /\ Showdown /\ Before.is_active /\ Before.pot > 0
    /\ \A i \in 1..2 : Before.players[i].commitment # ZERO_COMMITMENT
    /\ ArgProof(1) # <<0, 0>> /\ ArgProof(2) = <<0, 0>>
    /\ \A i \in 1..2 : ArgRank(i) \in 0..9
    /\ ~last.ok /\ last.err = "EmptyProof" /\ last.who = 2

---------------------------------------------------------------------------
(* Claims on the revealed hands, checked under SpecHands *)

\* a showdown that passes the session's own gates (active, both commitments,
\* both proofs non-trivial, both ranks in range) and so reaches the verifier
ReachesVerifier ==
    /\ Showdown /\ Before.is_active
    /\ \A i \in 1..2 :
          /\ Before.players[i].commitment # ZERO_COMMITMENT
          /\ ArgProof(i) # <<0, 0>>
          /\ ArgRank(i) \in 0..9

\* C12: through the real verifier, resolve_showdown succeeds only if the two hole
\* cards of each player are in [0,51] and distinct; otherwise nothing is settled,
\* and a showdown that reaches the verifier fails there, for the first player
\* whose hand is malformed, with InvalidCard or DuplicateCard.
C12_OnlyWellFormedHandsSettle ==
    (Showdown /\ Before.verifier_contract = NOIR) =>
        /\ last.ok => \A i \in 1..2 : ValidCards(ArgCards(i))
        /\ (\E i \in 1..2 : ~ValidCards(ArgCards(i))) => (~last.ok /\ game_state = last.pre)
        /\ (ReachesVerifier /\ ~ValidCards(ArgCards(1))) =>
              /\ last.err = "VerificationFailed" /\ last.who = 1
              /\ last.inner \in {"InvalidCard", "DuplicateCard"}
        /\ (ReachesVerifier /\ GatePasses(1) /\ ~ValidCards(ArgCards(2))) =>
              /\ last.err = "VerificationFailed" /\ last.who = 2
              /\ last.inner \in {"InvalidCard", "DuplicateCard"}

\* C12 witness: attested proofs on a committed session with a pot, player 1
\* revealing a valid hand and player 2 twice the same card
C12_Witness ==
    /\ ReachesVerifier /\ Before.verifier_contract = NOIR /\ Before.pot > 0
    /\ \A i \in 1..2 : proof_hash_of(ArgProof(i)) \in AttestedBefore
    /\ ValidCards(ArgCards(1))
    /\ ArgCards(2)[1] = ArgCards(2)[2]
    /\ ~last.ok /\ last.who = 2 /\ last.inner = "DuplicateCard"

---------------------------------------------------------------------------
(* Claims on the attestation store, checked under SpecVerifier *)

\* the latest call was record_zkverify_attestation
Recording == last.op = "record_zkverify_attestation"
\* the store <<ATT_CNT, (ATT, .), (ATT_H, .)>> as it is now
AttStore == <<att_cnt, att, att_h>>

\* C13: record_zkverify_attestation with a claimed_rank above 9 always fails and
\* changes nothing (count, indexed records, fingerprint entries); hence every
\* stored attestation has claimed_rank in [0,9].
C13_OutOfRangeRankIsNotRecorded ==
    /\ (Recording /\ last.args[4] > 9) => (~last.ok /\ AttStore = last.pre_att)
    /\ \A i \in DOMAIN att : att[i].claimed_rank \in 0..9

\* C13 witness: a rank of 10 was offered for a fingerprint that has no entry,
\* to a store that already holds a record
C13_Witness ==
    /\ Recording /\ last.args[4] = 10
    /\ last.pre_att[1] # <<>>
    /\ last.args[2] \notin DOMAIN last.pre_att[3]
    /\ ~last.ok

\* C14: indices are handed out densely from 0: the k-th successful
\* record_zkverify_attestation returns k-1, get_attestation_count returns the
\* number of successful recordings so far, and get_attestation(i) succeeds
\* exactly for i below that number and fails with NotFound otherwise.
C14_IndicesAreDenseFromZero ==
    /\ (Recording /\ last.ok) => last.ret = Len(recorded) - 1
    /\ last.op = "get_attestation_count" => (last.ok /\ last.ret = Len(recorded))
    /\ last.op = "get_attestation" =>
          /\ last.ok <=> last.args[1] < Len(recorded)
          /\ ~last.ok => last.err = "NotFound"

\* C14 witness: after two successful recordings, the index 2 was asked for
C14_Witness ==
    /\ last.op = "get_attestation"
    /\ Len(recorded) = 2
    /\ last.args[1] = 2
    /\ ~last.ok

---------------------------------------------------------------------------
(* Claims on the attestation store across recordings, verifications and
   settlements, checked under SpecAttest *)

\* some successful recording so far carried the fingerprint f
RecordedFor(f) == \E k \in 1..Len(recorded) : recorded[k].proof_hash = f

\* C15: has_attestation(f) is true exactly when an earlier
\* record_zkverify_attestation with proof_hash = f succeeded, and once true it
\* stays true whatever is called next (recordings for the same or other
\* fingerprints, verifications, settlements).
C15_MembershipIsExactAndMonotonic ==
    /\ [](/\ \A f \in Digests : has_attestation(f).ret = RecordedFor(f)
          /\ last.op = "has_attestation" => last.ret = RecordedFor(last.args[1]))
    /\ [][\A f \in Digests : has_attestation(f).ret => (has_attestation(f).ret)']_vars

\* C15 witness: fingerprint 1 was recorded and used by a settlement, then
\* fingerprint 2 was recorded, and has_attestation(1) is still reported true
C15_Witness ==
    /\ last.op = "has_attestation" /\ last.args[1] = 1 /\ last.ret = TRUE
    /\ Len(recorded) = 2
    /\ recorded[1].proof_hash = 1 /\ recorded[2].proof_hash = 2
    /\ settled = 1

\* C16: the store is append-only: get_attestation(i) returns, from the moment it
\* succeeds and after whatever is called next, the record of the (i+1)-th
\* successful recording, re-recording under the same fingerprint included; no
\* record is deleted and the count never decreases.
C16_StoreIsAppendOnly ==
    /\ [](/\ \A i \in 0..(Len(recorded) - 1) :
                get_attestation(i).ok /\ get_attestation(i).ret = recorded[i + 1]
          /\ (last.op = "get_attestation" /\ last.ok) => last.ret = recorded[last.args[1] + 1])
    /\ [][/\ \A i \in DOMAIN att :
                /\ (get_attestation(i).ok)'
                /\ (get_attestation(i).ret)' = get_attestation(i).ret
          /\ (get_attestation_count.ret)' >= get_attestation_count.ret]_vars

\* C16 witness: the same fingerprint was recorded twice under different
\* attestation ids, and get_attestation(0) returned the first record
C16_Witness ==
    /\ last.op = "get_attestation" /\ last.args[1] = 0 /\ last.ok
    /\ Len(recorded) = 2
    /\ recorded[1].proof_hash = recorded[2].proof_hash
    /\ recorded[1].attestation_id # recorded[2].attestation_id
    /\ last.ret = recorded[1]

---------------------------------------------------------------------------
(* Claims on verify_proof called directly, checked under SpecVerifier *)

\* the latest call was verify_proof; its cards, rank and proof blob
Verifying == last.op = "verify_proof"
VArgCards == last.args[1]
VArgRank == last.args[4]
VArgProof == last.args[5]

\* the first gate of verify_proof, in the order proof, card 1, card 2, distinct
\* cards, rank, attestation, that the arguments do not pass (with the card index)
VerifyFirstFailingGate ==
    IF VArgProof = <<0, 0>> THEN <<"EmptyProof", 0>>
    ELSE IF VArgCards[1] > 51 THEN <<"InvalidCard", 1>>
    ELSE IF VArgCards[2] > 51 THEN <<"InvalidCard", 2>>
    ELSE IF VArgCards[1] = VArgCards[2] THEN <<"DuplicateCard", 0>>
    ELSE IF VArgRank > 9 THEN <<"InvalidRank", 0>>
    ELSE IF proof_hash_of(VArgProof) \notin AttestedBefore THEN <<"AttestationMissing", 0>>
    ELSE <<"", 0>>

\* C17: verify_proof fails with the error of the first failing gate in the order
\* (1) proof has a non-zero byte, (2) card 1 in range, card 2 in range, cards
\* distinct, (3) rank in [0,9], (4) attestation lookup, and returns true when
\* no gate fails.
C17_VerifyReportsFirstFailingGate ==
    Verifying =>
        /\ <<last.err, last.who>> = VerifyFirstFailingGate
        /\ last.ok <=> VerifyFirstFailingGate[1] = ""
        /\ last.ok => last.ret = TRUE

\* C17 witness: both cards out of range, a rank of 10 and a fingerprint without
\* entry were offered with a non-trivial proof, and card 1 was reported
C17_Witness ==
    /\ Verifying
    /\ VArgProof # <<0, 0>>
    /\ VArgCards[1] > 51 /\ VArgCards[2] > 51
    /\ VArgRank > 9
    /\ proof_hash_of(VArgProof) \notin AttestedBefore
    /\ last.err = "InvalidCard" /\ last.who = 1

---------------------------------------------------------------------------
(* Claims on the pot, checked under SpecSession *)

\* C18: in every reachable session state, pot equals the sum of the bets placed
\* with place_bet since the latest init_game or pot distribution (a successful
\* resolve_showdown, or an end_game that pays a player): nothing already paid
\* out remains counted in pot.
C18_PotIsTheUndistributedBets ==
    game_state # <<>> => game_state[1].pot = contributed

---------------------------------------------------------------------------
(* Claims on what each operation may change, checked under SpecSystem *)

\* the pot of a stored session, 0 standing for no session
PotOf(store) == IF store = <<>> THEN 0 ELSE store[1].pot

\* C19: pot changes only through place_bet, a successful resolve_showdown and
\* init_game: submit_commitment, fold, reveal_community_cards, end_game,
\* set_verifier, every failed call and every attestation-store operation leave
\* it as it was.
C19_OnlyBetsAndSettlementMovePot ==
    (last.op # "idle" /\ PotOf(game_state) # PotOf(last.pre)) =>
        /\ last.ok
        /\ last.op \in {"place_bet", "resolve_showdown", "init_game"}

\* C19 witness: end_game paid a pot to a player and left pot as it was
C19_Witness ==
    /\ last.op = "end_game" /\ last.ok
    /\ last.pre # <<>> /\ last.pre[1].pot > 0
    /\ game_state[1].players[1].chips = last.pre[1].players[1].chips + last.pre[1].pot
    /\ game_state[1].pot = last.pre[1].pot

\* C20: resolved is terminal for the hand: a successful resolve_showdown leaves
\* is_active false, every later resolve_showdown fails with GameInactive until
\* init_game is called, no operation other than init_game makes an inactive
\* session active, and at most one resolve_showdown succeeds between two
\* init_game calls.
C20_ResolvedIsTerminal ==
    /\ (Showdown /\ last.ok) => (~After.is_active /\ settled = 1)
    /\ (Showdown /\ ~last.ok /\ settled >= 1) => last.err = "GameInactive"
    /\ ( /\ last.op # "idle" /\ last.pre # <<>>
         /\ ~last.pre[1].is_active /\ game_state[1].is_active ) => last.op = "init_game"
    /\ settled <= 1

\* C20 witness: after a settlement both players committed again, and a showdown
\* with non-trivial proofs and ranks in range failed with GameInactive
C20_Witness ==
    /\ Showdown /\ settled = 1 /\ ~last.ok
    /\ \A i \in 1..2 :
          /\ Before.players[i].commitment # ZERO_COMMITMENT
          /\ ArgProof(i) # <<0, 0>>
          /\ ArgRank(i) \in 0..9
    /\ last.err = "GameInactive"

---------------------------------------------------------------------------
(* Claims on what the outcome of a showdown depends on, checked under SpecHands *)

\* the body of resolve_showdown on a given session: preconditions, verification
\* gate, settlement; a is the tuple of the eight arguments
showdown_on(state, a) ==
    LET pre == showdown_preconditions(state, a[1], a[2], a[5], a[6])
        gate == showdown_verification(state, a[1], a[2], a[3], a[4], a[5], a[6], a[7], a[8])
    IN IF ~pre.ok THEN pre
       ELSE IF ~gate.ok THEN gate
       ELSE showdown_settle(state, a[1], a[2], a[5], a[6])

\* what a showdown on a session comes to: success or error, returned winner, and
\* the chips of the two players afterwards
OutcomeOn(state, out) ==
    <<out.ok, out.err, out.who, out.inner, out.ret,
      IF out.ok THEN <<out.state.players[1].chips, out.state.players[2].chips>>
      ELSE <<state.players[1].chips, state.players[2].chips>>>>

\* the session with other stored commitments, the arguments with other salts
WithCommitments(state, k1, k2) ==
    [state EXCEPT !.players[1].commitment = k1, !.players[2].commitment = k2]
WithSalts(a, s1, s2) == [a EXCEPT ![4] = s1, ![8] = s2]

---------------------------------------------------------------------------
(* Claims on single session operations, checked under SpecSession *)

\* the latest call was submit_commitment on an initialised contract
Submitting == last.op = "submit_commitment" /\ last.pre # <<>>

\* C22: a successful submit_commitment(player, digest) sets that player's stored
\* commitment to digest, replacing any earlier value, and leaves everything else
\* of the session (the other commitment, chips, current bets, pot, is_active) as
\* it was; a call naming an address that is no player of the session fails and
\* changes nothing.
C22_SubmitSetsOneCommitment ==
    Submitting =>
        LET i == find_player(Before.players, last.args[1])
        IN /\ last.ok => /\ i # 0
                         /\ After = [Before EXCEPT !.players[i].commitment = last.args[2]]
           /\ i = 0 => (~last.ok /\ game_state = last.pre)

\* C22 witness: player 2 replaced a commitment it had stored by another one,
\* while player 1 held a commitment and a bet
C22_Witness ==
    /\ Submitting /\ last.ok
    /\ last.args[1] = "B"
    /\ Before.players[2].commitment # ZERO_COMMITMENT
    /\ Before.players[2].commitment # last.args[2]
    /\ Before.players[1].commitment # ZERO_COMMITMENT
    /\ Before.pot > 0

\* C23: balances stay non-negative: in every session state reached from an
\* init_game with starting_chips >= 0 by place_bet (any integer amount), fold,
\* submit_commitment, end_game and resolve_showdown, pot >= 0 and the chips and
\* current_bet of each player are >= 0.
C23_BalancesStayNonNegative ==
    game_state # <<>> =>
        /\ game_state[1].pot >= 0
        /\ \A i \in 1..2 : /\ game_state[1].players[i].chips >= 0
                           /\ game_state[1].players[i].current_bet >= 0

---------------------------------------------------------------------------
(* Claims on the audit trail of a settlement, checked under Spec *)

\* C24: the showdown event of a successful resolve_showdown carries the winner,
\* both claimed ranks, both proof fingerprints (first 32 bytes of each blob) and
\* the two commitments as stored before the reset, both non-sentinel; the
\* session's player1_proof_hash / player2_proof_hash are those fingerprints; a
\* failed call publishes nothing and keeps the stored fingerprints.
C24_EventCarriesTheAuditTrail ==
    Showdown =>
        /\ last.ok =>
              /\ last.event = <<"showdown", last.ret, ArgRank(1), ArgRank(2),
                                proof_hash_of(ArgProof(1)), proof_hash_of(ArgProof(2)),
                                Before.players[1].commitment, Before.players[2].commitment>>
              /\ \A i \in 1..2 : Before.players[i].commitment # ZERO_COMMITMENT
              /\ After.player1_proof_hash = proof_hash_of(ArgProof(1))
              /\ After.player2_proof_hash = proof_hash_of(ArgProof(2))
        /\ ~last.ok =>
              /\ last.event = <<>>
              /\ After.player1_proof_hash = Before.player1_proof_hash
              /\ After.player2_proof_hash = Before.player2_proof_hash

\* C24 witness: a settlement on two different fingerprints and two different
\* ranks published its event
C24_Witness ==
    /\ Showdown /\ last.ok
    /\ proof_hash_of(ArgProof(1)) # proof_hash_of(ArgProof(2))
    /\ ArgRank(1) # ArgRank(2)
    /\ last.event # <<>>
    /\ last.event[5] = proof_hash_of(ArgProof(1))
    /\ last.event[7] # ZERO_COMMITMENT

---------------------------------------------------------------------------
(* Claims on re-recording, checked under SpecVerifier *)

\* the store before the latest call: count, indexed records, lookup entries
CountBefore == unwrap_or(last.pre_att[1], 0)
RecordsBefore == last.pre_att[2]
LookupBefore == last.pre_att[3]

\* C25: recording, with a rank in range, under a fingerprint that already has an
\* entry is accepted and is last-write-wins on the lookup only: it allocates a
\* new index, leaves every earlier indexed record untouched, increases the count
\* by one, and makes the lookup entry of the fingerprint hold the attestation_id
\* of this recording.
C25_ReRecordingIsLastWriteWins ==
    (Recording /\ last.args[2] \in DOMAIN LookupBefore /\ last.args[4] <= 9) =>
        /\ last.ok
        /\ last.ret = CountBefore /\ last.ret \notin DOMAIN RecordsBefore
        /\ att_cnt = <<CountBefore + 1>>
        /\ DOMAIN att = DOMAIN RecordsBefore \cup {last.ret}
        /\ \A i \in DOMAIN RecordsBefore : att[i] = RecordsBefore[i]
        /\ att[last.ret].attestation_id = last.args[1]
        /\ att[last.ret].proof_hash = last.args[2]
        /\ att_h[last.args[2]] = last.args[1]
        /\ DOMAIN att_h = DOMAIN LookupBefore
        /\ \A h \in DOMAIN LookupBefore \ {last.args[2]} : att_h[h] = LookupBefore[h]

\* C25 witness: a fingerprint recorded under one attestation id was recorded
\* again under another
C25_Witness ==
    /\ Recording /\ last.ok
    /\ last.args[2] \in DOMAIN LookupBefore
    /\ LookupBefore[last.args[2]] # last.args[1]
    /\ att_h[last.args[2]] = last.args[1]

---------------------------------------------------------------------------
(* Claims on reading the attestation store, checked under SpecAttest *)

\* C26: verify_proof, has_attestation, get_attestation, get_attestation_count
\* and resolve_showdown never change the attestation store (count, indexed
\* records, lookup entries), whether they succeed or fail; a successful
\* verification or settlement does not consume the attestation: the fingerprint
\* it used passes the gate again for either player.
C26_ReadingDoesNotConsume ==
    /\ last.op \in {"verify_proof", "has_attestation", "get_attestation",
                    "get_attestation_count", "resolve_showdown"} => AttStore = last.pre_att
    /\ (Verifying /\ last.ok) =>
          \A i \in 0..1 : verify_proof(VArgCards, 1, 1, VArgRank, VArgProof, player_id_bytes32(i)).ok
    /\ (Showdown /\ last.ok /\ Before.verifier_contract = NOIR) =>
          \A i \in 1..2, j \in 0..1 :
             verify_proof(ArgCards(i), 1, 1, ArgRank(i), ArgProof(i), player_id_bytes32(j)).ok

\* C26 witness: with a single recording in the store, a verification succeeded
\* after a settlement had gone through the gate on that same fingerprint
C26_Witness ==
    /\ Verifying /\ last.ok
    /\ Len(recorded) = 1
    /\ settled = 1
    /\ game_state[1].player1_proof_hash = proof_hash_of(VArgProof)

---------------------------------------------------------------------------
(* Claims on resolve_winner, checked under SpecVerifier *)

\* chips paid by a showdown with these ranks, out of a pot, to two players that
\* hold nothing
PaidOut(pot, r1, r2) ==
    LET paid == showdown_payout(<<Player("A", 0), Player("B", 0)>>, pot, r1, r2)
    IN <<paid.players[1].chips, paid.players[2].chips>>

\* C27: for ranks in [0,9], resolve_winner returns 0 exactly when resolve_showdown
\* pays the entire pot to player 1, 1 exactly when it pays the entire pot to
\* player 2, and 2 exactly when it splits the pot; it fails for a rank above 9.
C27_ResolveWinnerAgreesWithPayout ==
    last.op = "resolve_winner" =>
        LET r1 == last.args[1]
            r2 == last.args[2]
        IN /\ last.ok <=> (r1 <= 9 /\ r2 <= 9)
           /\ last.ok => \A pot \in {100, 101} :
                 /\ last.ret \in {0, 1, 2}
                 /\ last.ret = 0 <=> PaidOut(pot, r1, r2) = <<pot, 0>>
                 /\ last.ret = 1 <=> PaidOut(pot, r1, r2) = <<0, pot>>
                 /\ last.ret = 2 <=> PaidOut(pot, r1, r2) = <<div_trunc(pot, 2), pot - div_trunc(pot, 2)>>

\* C27 witness: resolve_winner named player 2 on ranks where player 2 is higher
C27_Witness ==
    /\ last.op = "resolve_winner" /\ last.ok
    /\ last.args[1] < last.args[2]
    /\ last.ret = 1

---------------------------------------------------------------------------
(* Claims on bets and chips, checked under SpecSession *)

\* the latest call was place_bet on an initialised contract
Betting == last.op = "place_bet" /\ last.pre # <<>>

\* C28: place_bet(player, amount) by a player of the session with amount <= chips
\* moves exactly amount from that player's chips into pot and into that player's
\* current_bet and leaves the other player's chips and current_bet and both
\* commitments as they were; with amount > chips it fails with 'Insufficient
\* chips' and the session is unchanged.
C28_BetMovesExactlyTheAmount ==
    Betting =>
        LET i == find_player(Before.players, last.args[1])
            amount == last.args[2]
        IN i # 0 =>
              IF amount <= Before.players[i].chips
              THEN /\ last.ok
                   /\ After.players[i].chips = Before.players[i].chips - amount
                   /\ After.players[i].current_bet = Before.players[i].current_bet + amount
                   /\ After.pot = Before.pot + amount
                   /\ After.players[3 - i].chips = Before.players[3 - i].chips
                   /\ After.players[3 - i].current_bet = Before.players[3 - i].current_bet
                   /\ \A j \in 1..2 : After.players[j].commitment = Before.players[j].commitment
              ELSE /\ ~last.ok
                   /\ last.err = "InsufficientChips"
                   /\ game_state = last.pre

\* C28 witness: a player that had put its whole stack in the pot bet again and
\* was refused
C28_Witness ==
    /\ Betting /\ ~last.ok
    /\ last.args[1] = "A"
    /\ Before.pot = 101 /\ Before.players[1].current_bet = 101
    /\ Before.players[1].chips = 0
    /\ last.args[2] = 101

\* C29: chips are conserved: after init_game with starting_chips = s, in every
\* state reached by place_bet, fold, submit_commitment, reveal_community_cards,
\* end_game and resolve_showdown until the next init_game,
\* chips(player 1) + chips(player 2) + pot = 2*s.
C29_ChipsAreConserved ==
    game_state # <<>> =>
        \E s \in StartingChips :
            game_state[1].players[1].chips + game_state[1].players[2].chips
               + game_state[1].pot = 2 * s

---------------------------------------------------------------------------
(* Claims on what an attestation binds, checked under Spec *)

\* C30: the rank used at settlement is the rank that was attested: through the
\* real verifier, resolve_showdown succeeds with claimed rank r for a player only
\* if an attestation recorded under that player's proof fingerprint has
\* claimed_rank = r.
C30_SettledRankIsTheAttestedRank ==
    (Showdown /\ last.ok /\ Before.verifier_contract = NOIR) =>
        \A i \in 1..2 :
            \E k \in DOMAIN RecordsBefore :
                /\ RecordsBefore[k].proof_hash = proof_hash_of(ArgProof(i))
                /\ RecordsBefore[k].claimed_rank = ArgRank(i)

---------------------------------------------------------------------------
(* Claims on the verifier a session is bound to, checked under SpecBinding *)

\* the salt argument of player i in the reported resolve_showdown call
ArgSalt(i) == IF i = 1 THEN last.args[4] ELSE last.args[8]

\* what verify_proof of the contract at addr answers for player i of the
\* reported showdown
VerdictOf(addr, i) ==
    IF addr = NOIR
    THEN verify_proof(ArgCards(i), ArgSalt(i), Before.players[i].commitment, ArgRank(i),
                      ArgProof(i), player_id_bytes32(i - 1))
    ELSE IF addr = MOCK
    THEN mock_verify_proof(ArgCards(i), ArgSalt(i), Before.players[i].commitment, ArgRank(i),
                           ArgProof(i), player_id_bytes32(i - 1))
    ELSE Fail("NoContract", 0, "")

\* the contract at addr lets player i through
Accepts(addr, i) == VerdictOf(addr, i).ok /\ VerdictOf(addr, i).ret

\* the reported showdown got as far as the cross-contract calls
PreconditionsPass ==
    showdown_preconditions(Before, ArgProof(1), ArgRank(1), ArgProof(2), ArgRank(2)).ok

\* C31: the verifier that gates a showdown is the one bound at init_game:
\* init_game stores the address of the VERIFIER slot (player1 while the slot is
\* empty) in the session, no later call changes the stored address, set_verifier
\* leaves the session untouched, and resolve_showdown succeeds, or fails with
\* the answer of verify_proof, according to the contract at the stored address,
\* whatever the VERIFIER slot holds by then.
C31_SessionKeepsItsVerifier ==
    /\ last.op = "init_game" =>
          game_state[1].verifier_contract = unwrap_or(verifier, last.args[1])
    /\ (last.op \notin {"idle", "init_game"} /\ last.pre # <<>>) =>
          game_state[1].verifier_contract = last.pre[1].verifier_contract
    /\ last.op = "set_verifier" => (last.ok /\ game_state = last.pre)
    /\ (Showdown /\ PreconditionsPass) =>
          LET bound == Before.verifier_contract
          IN /\ last.ok = (Accepts(bound, 1) /\ Accepts(bound, 2))
             /\ ~Accepts(bound, 1) =>
                   <<last.err, last.who, last.inner>> =
                      <<"VerificationFailed", 1, VerdictOf(bound, 1).err>>
             /\ (Accepts(bound, 1) /\ ~Accepts(bound, 2)) =>
                   <<last.err, last.who, last.inner>> =
                      <<"VerificationFailed", 2, VerdictOf(bound, 2).err>>

\* C31 witness: a session bound to the real verifier, the VERIFIER slot moved to
\* the mock afterwards, and a showdown that the mock would let through is
\* refused for its missing attestation
C31_Witness ==
    /\ Showdown /\ PreconditionsPass
    /\ Before.verifier_contract = NOIR
    /\ verifier = <<MOCK>>
    /\ Accepts(MOCK, 1) /\ Accepts(MOCK, 2)
    /\ ~last.ok /\ last.inner = "AttestationMissing"

---------------------------------------------------------------------------
(* Claims on a session that is no longer active, checked under SpecSession *)

\* the latest call, other than init_game, ran on a session that was not active
OnInactive ==
    /\ last.op \notin {"idle", "init_game"}
    /\ last.pre # <<>>
    /\ ~last.pre[1].is_active

\* chips, current bet and commitment of both players, and the pot
Balances(state) ==
    <<state.players[1].chips, state.players[1].current_bet, state.players[1].commitment,
      state.players[2].chips, state.players[2].current_bet, state.players[2].commitment,
      state.pot>>

\* C32: a resolved or ended hand is frozen: a call other than init_game on a
\* session whose is_active is false changes no player's chips, current_bet or
\* commitment, and not the pot.
C32_InactiveSessionIsFrozen ==
    OnInactive => Balances(game_state[1]) = Balances(last.pre[1])

---------------------------------------------------------------------------
(* Claims on the registry of games, checked under SpecHub *)

\* the latest call was game_hub.end_game
HubEnding == last.op = "game_hub.end_game"
\* its arguments
HubArgGame == last.args[1]
HubArgWinner == last.args[2]
\* the registry before and after that call (no entry while GAMES is unset)
RegistryBefore == unwrap_or(last.pre_games, map_new)
RegistryAfter == unwrap_or(games, map_new)
\* the game named by the call existed before it
HubGameKnown == HubArgGame \in DOMAIN RegistryBefore

\* C33: game_hub.end_game records a winner only for one of the game's two
\* players: with a winner that is neither player1 nor player2 of the game the
\* call fails and the registry, and so the game's winner, ended_at and
\* is_active, is unchanged; a call that succeeds was given one of the two
\* players, leaves the record with that winner and is_active = false, and
\* changes no other game of the registry.
C33_WinnerIsOneOfThePlayers ==
    HubEnding =>
       /\ (HubGameKnown /\ HubArgWinner \notin {RegistryBefore[HubArgGame].player1,
                                                RegistryBefore[HubArgGame].player2}) =>
             ~last.ok
       /\ ~last.ok => games = last.pre_games
       /\ last.ok =>
             /\ HubGameKnown
             /\ HubArgWinner \in {RegistryBefore[HubArgGame].player1,
                                   RegistryBefore[HubArgGame].player2}
             /\ DOMAIN RegistryAfter = DOMAIN RegistryBefore
             /\ RegistryAfter[HubArgGame].winner = <<HubArgWinner>>
             /\ RegistryAfter[HubArgGame].is_active = FALSE
             /\ \A g \in DOMAIN RegistryBefore \ {HubArgGame} :
                   RegistryAfter[g] = RegistryBefore[g]

\* C33 witness: on a registry of several games, an address that plays in
\* another game but not in this one is refused as the winner of a game that
\* is still active
C33_Witness ==
    /\ HubEnding /\ HubGameKnown
    /\ RegistryBefore[HubArgGame].is_active
    /\ HubArgWinner \notin {RegistryBefore[HubArgGame].player1,
                             RegistryBefore[HubArgGame].player2}
    /\ \E g \in DOMAIN RegistryBefore \ {HubArgGame} :
          HubArgWinner \in {RegistryBefore[g].player1, RegistryBefore[g].player2}
    /\ ~last.ok /\ last.err = "WinnerNotPlayer"

====
